---- MODULE Spec2Model ----
(***************************************************************************)
(* The key-rotation pool (APIKeyRotator), the generation client            *)
(* (OpenRouterLLM.generate) and the request pipeline (AgriAgent.query      *)
(* behind the /agent/query endpoint) of backend/agent.py.                  *)
(*                                                                         *)
(* Time is counted in whole minutes: datetime.now() is the clock `now`,    *)
(* timedelta(minutes = cooldown_minutes) is the integer cooldown_minutes.  *)
(* A credential is an integer 1..MaxKeys; Python's None is the value None. *)
(***************************************************************************)
EXTENDS Integers, Sequences, FiniteSets, TLC

\* ------------------------------------------------------------------ bounds
MaxKeys == 3        \* largest pool (number of configured credentials)
MaxCooldown == 1    \* largest configured cooldown, in minutes
MaxTime == 2        \* the clock runs from 0 to MaxTime
NumRequests == 2    \* requests the server has accepted at the same time
MaxWords == 1       \* longest question built from Words, in pieces of text
MaxReply == 3       \* longest reply of the decision model, in pieces of text
MaxHits == 2        \* largest k given to RAGTool.search
MaxDocs == 2        \* largest document store and metadata store
MaxRows == 6        \* largest price table, in rows

\* -------------------------------------------------------- program constants
None == 0                                \* Python's None (no key, no code)
rate_limit_codes == {429, 402, 503}      \* APIKeyRotator.rate_limit_codes
OtherCodes == {400, None}                \* codes a caller may pass that are not recognized
max_retries == 3                         \* generate(..., max_retries = 3)
Requests == 1..NumRequests

VARIABLES
    api_keys,          \* APIKeyRotator.api_keys: the ordered pool
    cooldown_minutes,  \* APIKeyRotator.cooldown_minutes
    current_index,     \* APIKeyRotator.current_index (0-based cursor)
    failed_keys,       \* APIKeyRotator.failed_keys: key -> time of failure
    now,               \* datetime.now()
    last,              \* the most recent call on the pool, with the state it found
    marked,            \* key -> time of the most recent mark_key_failed that disabled it
    run,               \* results of the get_next_key calls made in a row on a pool with none disabled
    runStart,          \* the cursor before the first call of `run`
    pc,                \* per request: where its handler stands
    phase,             \* per request: the client whose generate() runs ("decide", "answer")
    attempt,           \* per request: `attempt` of generate's for loop
    api_key,           \* per request: `api_key` of generate (result of the last lookup)
    gnk,               \* per request: the locals of the get_next_key call in progress
    gen,               \* per request: what the generate() call in progress has done so far
    outcome,           \* per request: how the last generate() call ended
    answer,            \* per request: the answer query() returns
    question,          \* query(question): the question, as a sequence of pieces of text
    qpc,               \* where query() stands
    reply,             \* decide_tools: how self.generate(...) ended, with the text it returned
    tool_decisions,    \* query: tool_decisions
    results,           \* query: rag_result, weather_data, market_data, water_data, pest_data
    tools_used,        \* query: tools_used
    context_parts,     \* query: context_parts
    result,            \* what query() returns
    search_args,       \* RAGTool.search: the stores, the arguments and what the index returns
    search_result,     \* RAGTool.search: its return value
    price_args,        \* MarketPriceTool.get_price: the loaded table and the commodity asked for
    price_result       \* MarketPriceTool.get_price: its return value

poolVars == <<api_keys, cooldown_minutes, current_index, failed_keys, now>>
histVars == <<last, marked, run, runStart>>
reqVars == <<pc, phase, attempt, api_key, gnk, gen, outcome, answer>>
queryVars == <<question, qpc, reply, tool_decisions, results, tools_used, context_parts, result>>
searchVars == <<search_args, search_result>>
priceVars == <<price_args, price_result>>
pipeVars == <<queryVars, searchVars, priceVars>>
vars == <<poolVars, histVars, reqVars, pipeVars>>

Range(s) == {s[i] : i \in DOMAIN s}

\* ------------------------------------------------------------ APIKeyRotator

\* The pools the constructor may be given: N distinct credentials, N = 0..MaxKeys.
Pools == {[i \in 1..n |-> i] : n \in 0..MaxKeys}

\* `expired = [k for k, fail_time in failed_keys.items() if now - fail_time > cooldown]`
ExpiredKeysAtOnce(failed, t, cd) == {k \in DOMAIN failed : t - failed[k] >= 0}
ExpiredKeys(failed, t, cd) == {k \in DOMAIN failed : t - failed[k] > cd}

\* `for k in expired: del self.failed_keys[k]`
DeleteKeysDisablingFirst(failed, expired) ==
    [k \in (DOMAIN failed \ expired) \cup {1} |-> IF k \in DOMAIN failed THEN failed[k] ELSE 0]
DeleteKeys(failed, expired) == [k \in DOMAIN failed \ expired |-> failed[k]]

\* The failed map after the clean-up of expired cooldowns at time t.
Cleanup(failed, t, cd) == DeleteKeys(failed, ExpiredKeys(failed, t, cd))

\* `while attempts < max_attempts`, max_attempts = len(api_keys)
MoreAttemptsOneTooMany(attempts, keys) == Len(keys) > 0 /\ attempts <= Len(keys)
MoreAttempts(attempts, keys) == attempts < Len(keys)

\* `self.current_index = (self.current_index + 1) % len(self.api_keys)`
AdvanceIndexStuck(idx, keys) == idx
AdvanceIndexSkipping(idx, keys) == (idx + 2) % Len(keys)
AdvanceIndex(idx, keys) == (idx + 1) % Len(keys)

\* `if key not in self.failed_keys`
IsAvailableUnchecked(key, failed) == key # None
IsAvailableIgnoringFailed(key, failed) == TRUE \/ key \in DOMAIN failed
IsAvailable(key, failed) == key \notin DOMAIN failed

\* The search loop of get_next_key, from cursor idx with `attempts` candidates
\* examined so far: the key returned (None when the loop runs out), the cursor
\* it leaves and the number of candidates examined.
RECURSIVE ScanKeysAdvanceOnReturnOnly(_, _, _, _)
ScanKeysAdvanceOnReturnOnly(keys, failed, idx, attempts) ==
    IF MoreAttempts(attempts, keys)
    THEN LET key == keys[idx + 1]
         IN  IF IsAvailable(key, failed)
             THEN [key |-> key, index |-> AdvanceIndex(idx, keys), examined |-> attempts + 1]
             ELSE ScanKeysAdvanceOnReturnOnly(keys, failed, idx, attempts + 1)
    ELSE [key |-> None, index |-> idx, examined |-> attempts]
RECURSIVE ScanKeys(_, _, _, _)
ScanKeys(keys, failed, idx, attempts) ==
    IF MoreAttempts(attempts, keys)
    THEN LET key == keys[idx + 1]
             nidx == AdvanceIndex(idx, keys)
         IN  IF IsAvailable(key, failed)
             THEN [key |-> key, index |-> nidx, examined |-> attempts + 1]
             ELSE ScanKeys(keys, failed, nidx, attempts + 1)
    ELSE [key |-> None, index |-> idx, examined |-> attempts]

\* The pool state after get_next_key() at time t, and its result.
GetNextKey(keys, failed, idx, t, cd) ==
    LET cleaned == Cleanup(failed, t, cd)
        s == ScanKeys(keys, cleaned, idx, 0)
    IN  [key |-> s.key, index |-> s.index, examined |-> s.examined, failed |-> cleaned]

\* The failed map after mark_key_failed(key, code) at time t.
MarkKeyFailedAnyCode(failed, key, code, t) ==
    [k \in DOMAIN failed \cup {key} |-> IF k = key THEN t ELSE failed[k]]
MarkKeyFailed(failed, key, code, t) ==
    IF code \in rate_limit_codes
    THEN [k \in DOMAIN failed \cup {key} |-> IF k = key THEN t ELSE failed[k]]
    ELSE failed

\* get_status(): the counts it reports and the cursor (next_key is the masked
\* form of the credential at the cursor, left out).
GetStatus(keys, failed, idx) ==
    LET total == Len(keys)
        nfailed == Cardinality(DOMAIN failed)
    IN  [total_keys |-> total,
         available_keys |-> total - nfailed,
         failed_keys |-> nfailed,
         current_index |-> idx]

\* ------------------------------------------------- the record of a pool call
\* op, the result (get) or the argument (mark), the code given to mark, the
\* number of candidates get examined and the caller (0: a direct call).
NoCall == [op |-> "none", key |-> None, code |-> None, examined |-> 0, who |-> 0]

GetRecord(who, key, examined) ==
    [op |-> "get", key |-> key, code |-> None, examined |-> examined, who |-> who]

MarkRecord(who, key, code) ==
    [op |-> "mark", key |-> key, code |-> code, examined |-> 0, who |-> who]

\* The longest row of calls that is followed.
RunWindow == MaxKeys + 2

\* `run` after a get_next_key call that found the cleaned map `cleaned` and returned key.
RunAfterGet(cleaned, key) ==
    IF cleaned # <<>> THEN <<>>
    ELSE IF Len(run) >= RunWindow THEN <<key>>
    ELSE Append(run, key)

RunStartAfterGet(cleaned) ==
    IF cleaned # <<>> THEN 0
    ELSE IF run = <<>> \/ Len(run) >= RunWindow THEN current_index
    ELSE runStart

MarkedAfter(key, code) ==
    IF code \in rate_limit_codes
    THEN [k \in DOMAIN marked \cup {key} |-> IF k = key THEN now ELSE marked[k]]
    ELSE marked

\* ------------------------------------------------ values of the request state
NoError == [attempt |-> -1, marker |-> FALSE]
NoOutcome == [kind |-> "none", cause |-> NoError]
NoScan == [expired |-> {}, attempts |-> 0, key |-> None, index |-> 0,
           index0 |-> 0, failed0 |-> <<>>, time0 |-> 0]
NoGen == [lookups |-> 0, calls |-> 0, rate |-> FALSE, other |-> FALSE]

\* -------------------------------------------------- values of the query state
NoReply == [kind |-> "none", text |-> <<>>]
NoDict == [key \in {} |-> FALSE]

\* no query() call has been made
NoQuery ==
    /\ question = <<>>
    /\ qpc = "none"
    /\ reply = NoReply
    /\ tool_decisions = NoDict
    /\ results = NoDict
    /\ tools_used = <<>>
    /\ context_parts = <<>>
    /\ result = NoDict

\* no search() call has been made
NoSearch ==
    /\ search_args = NoDict
    /\ search_result = NoDict

\* no get_price() call has been made
NoPrice ==
    /\ price_args = NoDict
    /\ price_result = NoDict

\* --------------------------------------------------------------------- Init
Init ==
    /\ api_keys \in Pools
    /\ cooldown_minutes \in 1..MaxCooldown
    /\ current_index = 0
    /\ failed_keys = <<>>
    /\ now = 0
    /\ last = NoCall
    /\ marked = <<>>
    /\ run = <<>>
    /\ runStart = 0
    /\ pc = [r \in Requests |-> "idle"]
    /\ phase = [r \in Requests |-> "none"]
    /\ attempt = [r \in Requests |-> 0]
    /\ api_key = [r \in Requests |-> None]
    /\ gnk = [r \in Requests |-> NoScan]
    /\ gen = [r \in Requests |-> NoGen]
    /\ outcome = [r \in Requests |-> NoOutcome]
    /\ answer = [r \in Requests |-> "none"]
    /\ NoQuery
    /\ NoSearch
    /\ NoPrice

\* ------------------------------------------- direct calls on the pool object

\* key_rotator.get_next_key()
GetNextKeyCall ==
    LET res == GetNextKey(api_keys, failed_keys, current_index, now, cooldown_minutes)
    IN  /\ failed_keys' = res.failed
        /\ current_index' = res.index
        /\ last' = GetRecord(0, res.key, res.examined)
        /\ run' = RunAfterGet(res.failed, res.key)
        /\ runStart' = RunStartAfterGet(res.failed)
        /\ UNCHANGED <<pipeVars, api_keys, cooldown_minutes, now, marked, reqVars>>

\* key_rotator.mark_key_failed(key, code)
MarkKeyFailedStep(key, code) ==
    /\ failed_keys' = MarkKeyFailed(failed_keys, key, code, now)
    /\ last' = MarkRecord(0, key, code)
    /\ marked' = MarkedAfter(key, code)
    /\ run' = <<>>
    /\ runStart' = 0
    /\ UNCHANGED <<pipeVars, api_keys, cooldown_minutes, current_index, now, reqVars>>

MarkKeyFailedCall ==
    \E key \in Range(api_keys), code \in rate_limit_codes \cup OtherCodes :
        MarkKeyFailedStep(key, code)

\* a minute passes (the clock is read once, at the start of get_next_key: no
\* minute is counted between that read and the return of the call, nor for
\* the `time.sleep` of 1 or 3 seconds between two attempts of generate)
Tick ==
    /\ now < MaxTime
    /\ \A r \in Requests : pc[r] \notin {"expire", "scan", "advance"}
    /\ \A r \in Requests : ~(pc[r] = "lookup" /\ attempt[r] > 0)
    /\ now' = now + 1
    /\ UNCHANGED <<pipeVars, api_keys, cooldown_minutes, current_index, failed_keys, histVars, reqVars>>

NextPool == GetNextKeyCall \/ MarkKeyFailedCall \/ Tick

SpecPool == Init /\ [][NextPool]_vars

\* ---------------------------------------------------- OpenRouterLLM.generate

\* What the remote API may answer to one POST: a 200 with a well-formed body,
\* a 200 whose body has no choices[0].message.content, a recognized
\* rate/quota/unavailability status, or a RequestException (a transport error or
\* the HTTPError of raise_for_status) whose text does or does not hold one of
\* the markers "429", "quota", "rate limit".
Responses ==
    [kind : {"ok", "bad_payload"}, code : {200}, marker : {FALSE}]
    \cup [kind : {"rate_status"}, code : rate_limit_codes, marker : {FALSE}]
    \cup [kind : {"request_error"}, code : {None}, marker : BOOLEAN]

\* `for attempt in range(max_retries)`: the loop body runs, or the loop is over.
LoopHead(a) == IF a < max_retries THEN "lookup" ELSE "exhausted"

\* `if api_key is None: raise ConnectionError(...)`
OnKeyGenericError(key) ==
    IF key = None THEN [kind |-> "RuntimeError", cause |-> NoError] ELSE NoOutcome
OnKey(key) ==
    IF key = None THEN [kind |-> "ConnectionError", cause |-> NoError] ELSE NoOutcome

\* `if attempt == max_retries - 1`
IsFinalAttemptOffByOne(a) == a = max_retries
IsFinalAttempt(a) == a = max_retries - 1

\* What generate does with the response of attempt a: the branch taken and the
\* code given to mark_key_failed (None: the key is not marked).
ClassifyEveryErrorAsRateLimit(resp, a) ==
    CASE resp.kind = "rate_status" -> [act |-> "continue", code |-> resp.code]
      [] resp.kind = "ok" -> [act |-> "return", code |-> None]
      [] resp.kind = "bad_payload" -> [act |-> "propagate", code |-> None]
      [] OTHER -> [act |-> "continue", code |-> 429]
Classify(resp, a) ==
    CASE resp.kind = "rate_status" -> [act |-> "continue", code |-> resp.code]
      [] resp.kind = "ok" -> [act |-> "return", code |-> None]
      [] resp.kind = "bad_payload" -> [act |-> "propagate", code |-> None]
      [] resp.kind = "request_error" /\ resp.marker -> [act |-> "continue", code |-> 429]
      [] resp.kind = "request_error" /\ ~resp.marker /\ IsFinalAttempt(a) ->
            [act |-> "raise", code |-> None]
      [] OTHER -> [act |-> "retry", code |-> None]

\* The loop variable after an iteration that ended by `continue` or fell through.
NextAttemptFreeContinue(a, act) == IF act = "continue" THEN a ELSE a + 1
NextAttempt(a, act) == a + 1

\* How generate ends on the response of attempt a (kind "none": it goes on).
Ending(resp, a) ==
    LET act == Classify(resp, a).act
    IN  CASE act = "return" -> [kind |-> "text", cause |-> NoError]
          [] act = "propagate" -> [kind |-> "KeyError", cause |-> NoError]
          [] act = "raise" ->
                [kind |-> "RuntimeError", cause |-> [attempt |-> a, marker |-> resp.marker]]
          [] OTHER -> NoOutcome

\* ------------------------------------------------------------ AgriAgent.query

\* The answer query() builds from the way the answer generation ended.
AnswerOfOneExceptClause(o) == IF o.kind = "text" THEN "text" ELSE "internal_error"
AnswerOf(o) ==
    CASE o.kind = "text" -> "text"
      [] o.kind = "ConnectionError" -> "service_error"
      [] OTHER -> "internal_error"

\* agent_query is a coroutine that calls the synchronous query() and never
\* awaits: the event loop runs the handler of r only while no other handler is
\* between its first and its last statement.
ScheduledOnThreads(r) == r \in Requests
Scheduled(r) == \A o \in Requests \ {r} : pc[o] = "idle"

\* POST /agent/query: the event loop starts the handler of a received request;
\* query() calls decide_tools(), which calls generate()
Begin(r) ==
    /\ pc[r] = "idle"
    /\ Scheduled(r)
    /\ phase' = [phase EXCEPT ![r] = "decide"]
    /\ attempt' = [attempt EXCEPT ![r] = 0]
    /\ pc' = [pc EXCEPT ![r] = LoopHead(0)]
    /\ UNCHANGED <<pipeVars, poolVars, histVars, api_key, gnk, gen, outcome, answer>>

\* get_next_key: the list of expired keys is computed
ExpireScan(r) ==
    /\ pc[r] = "lookup"
    /\ Scheduled(r)
    /\ gnk' = [gnk EXCEPT ![r] =
                 [NoScan EXCEPT !.expired = ExpiredKeys(failed_keys, now, cooldown_minutes),
                                !.index0 = current_index,
                                !.failed0 = failed_keys,
                                !.time0 = now]]
    /\ pc' = [pc EXCEPT ![r] = "expire"]
    /\ UNCHANGED <<pipeVars, poolVars, histVars, phase, attempt, api_key, gen, outcome, answer>>

\* get_next_key: the expired keys are deleted (del raises KeyError on a key
\* that is no longer in the map)
ExpireDelete(r) ==
    /\ pc[r] = "expire"
    /\ Scheduled(r)
    /\ IF gnk[r].expired \subseteq DOMAIN failed_keys
       THEN /\ failed_keys' = DeleteKeys(failed_keys, gnk[r].expired)
            /\ pc' = [pc EXCEPT ![r] = "scan"]
            /\ UNCHANGED <<outcome, gnk>>
       ELSE /\ outcome' = [outcome EXCEPT ![r] = [kind |-> "KeyError", cause |-> NoError]]
            /\ pc' = [pc EXCEPT ![r] = "returned"]
            /\ gnk' = [gnk EXCEPT ![r] = NoScan]
            /\ UNCHANGED failed_keys
    /\ UNCHANGED <<pipeVars, api_keys, cooldown_minutes, current_index, now, histVars,
                   phase, attempt, api_key, gen, answer>>

\* get_next_key returns key to generate, which raises when it is None
ReturnKey(r, key, examined) ==
    /\ api_key' = [api_key EXCEPT ![r] = key]
    /\ last' = GetRecord(r, key, examined)
    /\ gen' = [gen EXCEPT ![r].lookups = @ + 1]
    /\ gnk' = [gnk EXCEPT ![r] = NoScan]
    /\ outcome' = [outcome EXCEPT ![r] = OnKey(key)]
    /\ pc' = [pc EXCEPT ![r] = IF OnKey(key).kind = "none" THEN "post" ELSE "returned"]

\* get_next_key: the loop test, and the read of the candidate at the cursor
ScanRead(r) ==
    /\ pc[r] = "scan"
    /\ Scheduled(r)
    /\ IF MoreAttempts(gnk[r].attempts, api_keys)
       THEN /\ gnk' = [gnk EXCEPT ![r].key = api_keys[current_index + 1],
                                  ![r].index = current_index]
            /\ pc' = [pc EXCEPT ![r] = "advance"]
            /\ UNCHANGED <<api_key, last, gen, outcome>>
       ELSE ReturnKey(r, None, gnk[r].attempts)
    /\ UNCHANGED <<pipeVars, poolVars, marked, run, runStart, phase, attempt, answer>>

\* get_next_key: the cursor moves on, and the candidate is returned or skipped
ScanAdvance(r) ==
    /\ pc[r] = "advance"
    /\ Scheduled(r)
    /\ current_index' = AdvanceIndex(gnk[r].index, api_keys)
    /\ IF IsAvailable(gnk[r].key, failed_keys)
       THEN ReturnKey(r, gnk[r].key, gnk[r].attempts + 1)
       ELSE /\ gnk' = [gnk EXCEPT ![r].attempts = @ + 1]
            /\ pc' = [pc EXCEPT ![r] = "scan"]
            /\ UNCHANGED <<api_key, last, gen, outcome>>
    /\ UNCHANGED <<pipeVars, api_keys, cooldown_minutes, failed_keys, now, marked, run, runStart,
                   phase, attempt, answer>>

\* generate: the POST with api_key is answered by resp, and what generate does
\* with that response
RemoteCallOn(r, resp) ==
    /\ pc[r] = "post"
    /\ Scheduled(r)
    /\ LET c == Classify(resp, attempt[r])
           goes_on == c.act \in {"continue", "retry"}
           a == NextAttempt(attempt[r], c.act)
       IN  /\ failed_keys' = IF c.act = "continue"
                             THEN MarkKeyFailed(failed_keys, api_key[r], c.code, now)
                             ELSE failed_keys
           /\ marked' = IF c.act = "continue" THEN MarkedAfter(api_key[r], c.code) ELSE marked
           /\ last' = IF c.act = "continue" THEN MarkRecord(r, api_key[r], c.code) ELSE last
           /\ attempt' = [attempt EXCEPT ![r] = IF goes_on THEN a ELSE @]
           /\ pc' = [pc EXCEPT ![r] = IF goes_on THEN LoopHead(a) ELSE "returned"]
           /\ outcome' = [outcome EXCEPT ![r] = Ending(resp, attempt[r])]
           /\ gen' = [gen EXCEPT
                        ![r].calls = @ + 1,
                        ![r].rate = @ \/ c.act = "continue",
                        ![r].other = @ \/ c.act \in {"raise", "retry"}]
    /\ UNCHANGED <<pipeVars, api_keys, cooldown_minutes, current_index, now, run, runStart,
                   phase, api_key, gnk, answer>>

\* generate: the POST with api_key, and what generate does with its response
RemoteCall(r) == \E resp \in Responses : RemoteCallOn(r, resp)

\* generate: the raise after the loop
FinalRaise(r) ==
    /\ pc[r] = "exhausted"
    /\ Scheduled(r)
    /\ outcome' = [outcome EXCEPT ![r] = [kind |-> "RuntimeError", cause |-> NoError]]
    /\ pc' = [pc EXCEPT ![r] = "returned"]
    /\ UNCHANGED <<pipeVars, poolVars, histVars, phase, attempt, api_key, gnk, gen, answer>>

\* decide_tools has its decision (from the text, or from the keyword fallback
\* when generate raised); query goes on to the answer generation
Decided(r) ==
    /\ pc[r] = "returned"
    /\ phase[r] = "decide"
    /\ Scheduled(r)
    /\ phase' = [phase EXCEPT ![r] = "answer"]
    /\ attempt' = [attempt EXCEPT ![r] = 0]
    /\ api_key' = [api_key EXCEPT ![r] = None]
    /\ gen' = [gen EXCEPT ![r] = NoGen]
    /\ outcome' = [outcome EXCEPT ![r] = NoOutcome]
    /\ pc' = [pc EXCEPT ![r] = LoopHead(0)]
    /\ UNCHANGED <<pipeVars, poolVars, histVars, gnk, answer>>

\* query builds the answer from the text or from the error, and returns
Answered(r) ==
    /\ pc[r] = "returned"
    /\ phase[r] = "answer"
    /\ Scheduled(r)
    /\ answer' = [answer EXCEPT ![r] = AnswerOf(outcome[r])]
    /\ pc' = [pc EXCEPT ![r] = "done"]
    /\ phase' = [phase EXCEPT ![r] = "none"]
    /\ attempt' = [attempt EXCEPT ![r] = 0]
    /\ api_key' = [api_key EXCEPT ![r] = None]
    /\ gen' = [gen EXCEPT ![r] = NoGen]
    /\ outcome' = [outcome EXCEPT ![r] = NoOutcome]
    /\ UNCHANGED <<pipeVars, poolVars, histVars, gnk>>

\* agent_query returns AgentResponse(**result): the handler is over
Respond(r) ==
    /\ pc[r] = "done"
    /\ Scheduled(r)
    /\ pc' = [pc EXCEPT ![r] = "idle"]
    /\ answer' = [answer EXCEPT ![r] = "none"]
    /\ UNCHANGED <<pipeVars, poolVars, histVars, phase, attempt, api_key, gnk, gen, outcome>>

Next ==
    \/ \E r \in Requests :
          \/ Begin(r)
          \/ ExpireScan(r)
          \/ ExpireDelete(r)
          \/ ScanRead(r)
          \/ ScanAdvance(r)
          \/ RemoteCall(r)
          \/ FinalRaise(r)
          \/ Decided(r)
          \/ Answered(r)
          \/ Respond(r)
    \/ Tick

Spec == Init /\ [][Next]_vars

\* ----------------------------------------------------------------------- text
\* A text is the sequence of its pieces, each a string of one or more
\* characters ("" where a formatted value is empty).  The pieces are cut such
\* that a keyword of the code occurs in a text as a string exactly when its
\* pieces occur in a row: "price" is "p" + "rice", "rainfall" is "rain" + "fall",
\* "groundwater" is "ground" + "water".  The empty text also stands for None
\* where a text is expected.

\* the pieces a question is built from
Words == {"Rain", "fall", "p", "rice", "pest"}

\* "What is the weather in Hyderabad and market price of rice?"
ExampleQuestion ==
    <<"What", " ", "is", " ", "the", " ", "weather", " ", "in", " ", "Hyderabad", " ",
      "and", " ", "market", " ", "p", "rice", " ", "of", " ", "rice", "?">>

\* "price of tomato"
TomatoQuestion == <<"p", "rice", " ", "of", " ", "tomato">>

\* "Rainfall"
RainfallQuestion == <<"Rain", "fall">>

\* "Rain pest"
RainPestQuestion == <<"Rain", " ", "pest">>

\* the questions a request may carry (QueryRequest.question: str)
Questions ==
    UNION {[1..n -> Words] : n \in 0..MaxWords}
    \cup {ExampleQuestion, TomatoQuestion, RainfallQuestion, RainPestQuestion}

\* str.lower() on one piece
LowerPiece(p) ==
    CASE p = "Rain" -> "rain"
      [] p = "What" -> "what"
      [] p = "Hyderabad" -> "hyderabad"
      [] p = "Tomato" -> "tomato"
      [] p = "Wheat" -> "wheat"
      [] p = "Yard" -> "yard"
      [] p = "Date" -> "date"
      [] p = "Commodity" -> "commodity"
      [] p = "Market" -> "market"
      [] p = "Variety" -> "variety"
      [] p = "Local" -> "local"
      [] p = "Min_" -> "min_"
      [] p = "Max_" -> "max_"
      [] p = "P" -> "p"
      [] p = "Name: " -> "name: "
      [] OTHER -> p

\* str.upper() on one piece
UpperPiece(p) ==
    CASE p = "rice" -> "RICE"
      [] p = "tomato" -> "TOMATO"
      [] p = "general commodity" -> "GENERAL COMMODITY"
      [] p = "general crop" -> "GENERAL CROP"
      [] OTHER -> p

\* `question.lower()`
Lower(t) == [i \in DOMAIN t |-> LowerPiece(t[i])]

\* `commodity.upper()`
Upper(t) == [i \in DOMAIN t |-> UpperPiece(t[i])]

\* a text with no character (falsy in Python)
IsEmptyText(t) == \A i \in DOMAIN t : t[i] = ""

\* `w in q` on strings: the search for w from position i of q on
RECURSIVE FindFrom(_, _, _)
FindFrom(w, q, i) ==
    IF i + Len(w) - 1 > Len(q) THEN FALSE
    ELSE IF SubSeq(q, i, i + Len(w) - 1) = w THEN TRUE
    ELSE FindFrom(w, q, i + 1)

In(w, q) == FindFrom(w, q, 1)

\* `any(w in q for w in list)`
RECURSIVE AnyIn(_, _)
AnyIn(list, q) ==
    IF list = <<>> THEN FALSE
    ELSE In(Head(list), q) \/ AnyIn(Tail(list), q)

\* `next((c for c in list if c in q), default)`
RECURSIVE FirstIn(_, _, _)
FirstIn(list, q, default) ==
    IF list = <<>> THEN default
    ELSE IF In(Head(list), q) THEN Head(list)
    ELSE FirstIn(Tail(list), q, default)

\* ------------------------------------------------------- AgentLLM.decide_tools

\* `allowed_keys = ['rag', 'weather', 'market', 'water', 'pest']`
allowed_keys == <<"rag", "weather", "market", "water", "pest">>

\* the keyword lists of _fallback_detection
weather_keywords ==
    << <<"weather">>, <<"temperature">>, <<"rain">>, <<"climate">>, <<"humidity">>, <<"wind">> >>
market_keywords ==
    << <<"p", "rice">>, <<"market">>, <<"cost">>, <<"rate">>, <<"selling">>, <<"commodity">> >>
water_keywords ==
    << <<"water">>, <<"irrigation">>, <<"moisture">>, <<"rain", "fall">>, <<"ground", "water">> >>
pest_keywords ==
    << <<"pest">>, <<"disease">>, <<"insect">>, <<"fungal">>, <<"virus">>, <<"infection">> >>

\* A Python value a decision may hold, written as Python prints it: the
\* booleans "True" and "False", and the string 'false'.
Py(b) == IF b THEN "True" ELSE "False"

\* whether a value is an instance of bool
IsBool(v) == v \in {"True", "False"}

\* the truth value of v in `if v:`; a string that is not empty is true
Truthy(v) == v \notin {"False", "''", "0", "None"}

\* _fallback_detection(question)
FallbackDetection(q0) ==
    LET q == Lower(q0)
    IN  [k \in Range(allowed_keys) |->
            CASE k = "rag" -> Py(TRUE)
              [] k = "weather" -> Py(AnyIn(weather_keywords, q))
              [] k = "market" -> Py(AnyIn(market_keywords, q))
              [] k = "water" -> Py(AnyIn(water_keywords, q))
              [] k = "pest" -> Py(AnyIn(pest_keywords, q))]

\* The pieces of a reply of the decision model: braces, white space, prose, and
\* members `"key": value` of a JSON object (with the comma that separates them).
Members == {"\"rag\": false", "\"weather\": true", "\"extra\": true", "\"pest\": \"false\""}
ReplyPieces == {"{", "}", " "} \cup Members

MemberKey(m) ==
    CASE m = "\"rag\": false" -> "rag"
      [] m = "\"weather\": true" -> "weather"
      [] m = "\"pest\": \"false\"" -> "pest"
      [] OTHER -> "extra"

\* the Python value json.loads gives to the member
MemberValue(m) ==
    CASE m = "\"rag\": false" -> Py(FALSE)
      [] m = "\"pest\": \"false\"" -> "'false'"
      [] OTHER -> Py(TRUE)

\* the texts generate() may return to decide_tools
Replies == UNION {[1..n -> ReplyPieces] : n \in 0..MaxReply}

\* the position of the first "}" of t at or after i (0: there is none)
RECURSIVE FirstClose(_, _)
FirstClose(t, i) ==
    IF i > Len(t) THEN 0
    ELSE IF t[i] = "}" THEN i
    ELSE FirstClose(t, i + 1)

\* `re.search(r'\{[^}]+\}', response, re.DOTALL)` tried from position i on: the
\* leftmost "{" followed by one or more characters other than "}" and a "}"
\* (the empty text: no match)
RECURSIVE SearchFrom(_, _)
SearchFrom(t, i) ==
    IF i > Len(t) THEN <<>>
    ELSE LET j == FirstClose(t, i + 1)
         IN  IF t[i] = "{" /\ j >= i + 2 THEN SubSeq(t, i, j)
             ELSE SearchFrom(t, i + 1)

ReSearch(t) == SearchFrom(t, 1)

\* the members of the text between two braces, white space left out
RECURSIVE MembersOf(_)
MembersOf(t) ==
    IF t = <<>> THEN <<>>
    ELSE IF Head(t) = " " THEN MembersOf(Tail(t))
    ELSE <<Head(t)>> \o MembersOf(Tail(t))

\* json.loads(s) succeeds on s = "{" ... "}"
JsonValid(s) ==
    /\ Len(s) >= 2
    /\ s[1] = "{"
    /\ s[Len(s)] = "}"
    /\ \A m \in Range(MembersOf(SubSeq(s, 2, Len(s) - 1))) : m \in Members

\* the dict json.loads(s) returns: a later member replaces an earlier one of the same key
RECURSIVE DictOf(_, _)
DictOf(ms, d) ==
    IF ms = <<>> THEN d
    ELSE DictOf(Tail(ms),
                [k \in DOMAIN d \cup {MemberKey(Head(ms))} |->
                    IF k = MemberKey(Head(ms)) THEN MemberValue(Head(ms)) ELSE d[k]])

JsonLoads(s) == DictOf(MembersOf(SubSeq(s, 2, Len(s) - 1)), NoDict)

\* `d.get(key, default)`
DictGet(d, key, default) == IF key \in DOMAIN d THEN d[key] ELSE default

\* a call that returned v, a call that raised the exception exc
Returned(v) == [exc |-> "none", value |-> v]
Raised(exc) == [exc |-> exc, value |-> NoDict]

\* how a generate() call may end
GenerateEndings ==
    ({Ending(resp, a).kind : resp \in Responses, a \in 0..(max_retries - 1)}
        \cup {OnKey(None).kind}) \ {"none"}

\* how the generate() call of decide_tools may end, with the text returned
DecideReplies ==
    {[kind |-> "text", text |-> t] : t \in Replies}
    \cup {[kind |-> k, text |-> <<>>] : k \in GenerateEndings \ {"text"}}

\* `final_decisions['rag'] = True`
EnforceRagForgotten(d) == d
EnforceRag(d) == [d EXCEPT !["rag"] = Py(TRUE)]

\* `{k: decisions.get(k, False) for k in allowed_keys}`
Project(decisions) == [k \in Range(allowed_keys) |-> DictGet(decisions, k, Py(FALSE))]

\* the body of the try block of decide_tools
TryDecide(g) ==
    IF g.kind # "text" THEN Raised(g.kind)
    ELSE LET json_match == ReSearch(g.text)
         IN  IF json_match # <<>>
             THEN IF JsonValid(json_match)
                  THEN Returned(EnforceRag(Project(JsonLoads(json_match))))
                  ELSE Raised("JSONDecodeError")
             ELSE Raised("ValueError")

\* `except Exception`
CaughtParseErrorsOnly(exc) == exc \in {"ValueError", "JSONDecodeError"}
Caught(exc) == exc \in {"ValueError", "JSONDecodeError"} \cup GenerateEndings

\* decide_tools(question), the generate() call ending as g
DecideTools(q, g) ==
    LET t == TryDecide(g)
    IN  IF t.exc = "none" THEN t
        ELSE IF Caught(t.exc) THEN Returned(FallbackDetection(q))
        ELSE Raised(t.exc)

\* -------------------------------------------------------------- RAGTool.search
\* Distances are counted in tenths and similarities in two-hundredths, so that
\* `1 - d ** 2 / 2` is the integer 200 - d * d: a distance of 1.2 is 12, the
\* similarity 0.35 is 70.

\* the similarity 1.0
SimilarityOne == 200

\* `threshold: float = 0.35`
DefaultThreshold == 70

\* `similarities = 1 - (distances[0] ** 2) / 2`, for one distance the index returned
Similarity(distance) == SimilarityOne - distance * distance

\* the text of document i and the source label of its metadata
Doc(i) == CASE i = 1 -> "d1" [] i = 2 -> "d2" [] i = 3 -> "d3" [] OTHER -> "d4"
Src(i) == CASE i = 1 -> "s1" [] i = 2 -> "s2" [] i = 3 -> "s3" [] OTHER -> "s4"

\* self.documents and self.metadata as loaded from the pickle: two lists that
\* may or may not have the same length
Documents(n) == [i \in 1..n |-> Doc(i)]
Metadata(n) == [i \in 1..n |-> [source |-> Src(i), type |-> "text"]]

\* the distances the index may return for a hit: 0, 1.0, 1.2 and 2.0
Distances == {0, 10, 12, 20}

\* the positions the index may return for a hit: -1 (no neighbour) and the
\* positions of an index of up to MaxDocs + 1 vectors
Positions == (0 - 1)..MaxDocs

Hits == [distance : Distances, idx : Positions]

\* what self.index.search(query_embedding, k) returns, or that the embedding or
\* the index raised, for stores of up to max_docs entries and up to max_hits hits
SearchArgs(max_docs, max_hits) ==
    {[documents |-> Documents(nd), metadata |-> Metadata(nm), threshold |-> th,
      raises |-> FALSE, hits |-> h] :
        nd \in 0..max_docs, nm \in 0..max_docs, th \in {DefaultThreshold, 0},
        h \in UNION {[1..k -> Hits] : k \in 1..max_hits}}
    \cup
    {[documents |-> Documents(nd), metadata |-> Metadata(nm), threshold |-> DefaultThreshold,
      raises |-> TRUE, hits |-> <<>>] : nd \in 0..max_docs, nm \in 0..max_docs}

\* `max(scores) if scores else 0.0`
RECURSIVE MaxOf(_)
MaxOf(scores) ==
    IF scores = <<>> THEN 0
    ELSE LET m == MaxOf(Tail(scores))
         IN  IF Len(scores) = 1 \/ Head(scores) >= m THEN Head(scores) ELSE m

\* the loop `for idx, score in zip(indices[0], similarities)` from hit i on;
\* self.metadata[idx] raises IndexError when idx is past the end of the list
RECURSIVE Collect(_, _, _, _)
Collect(a, i, rs, scores) ==
    IF i > Len(a.hits) THEN Returned([results |-> rs, scores |-> scores])
    ELSE LET idx == a.hits[i].idx
             score == Similarity(a.hits[i].distance)
         IN  IF score >= a.threshold /\ 0 <= idx /\ idx < Len(a.documents)
             THEN IF idx < Len(a.metadata)
                  THEN Collect(a, i + 1,
                               Append(rs, [text |-> a.documents[idx + 1],
                                           source |-> a.metadata[idx + 1].source,
                                           type |-> a.metadata[idx + 1].type]),
                               Append(scores, score))
                  ELSE Raised("IndexError")
             ELSE Collect(a, i + 1, rs, scores)

\* the dict search() returns from its except clause
SearchFailed(error) == [success |-> FALSE, error |-> error, is_relevant |-> FALSE]

\* search(query, k, threshold)
Search(a) ==
    IF a.raises THEN SearchFailed(<<"index is not trained">>)
    ELSE LET c == Collect(a, 1, <<>>, <<>>)
         IN  IF c.exc # "none" THEN SearchFailed(<<"list index out of range">>)
             ELSE [success |-> TRUE,
                   results |-> c.value.results,
                   scores |-> c.value.scores,
                   is_relevant |-> Len(c.value.results) > 0
                                   /\ MaxOf(c.value.scores) >= a.threshold,
                   top_score |-> MaxOf(c.value.scores)]

\* -------------------------------------------------------- WeatherTool.get_weather

\* what the weather API does with the request: it answers, or requests raises
\* an error whose text holds '401', holds '404', or is empty
WeatherReplies == {"ok", "401", "404", "error"}

GetWeather(city, env) ==
    IF env = "ok"
    THEN [success |-> TRUE,
          city |-> city,
          context_summary |-> <<"Live weather data for ", city, ", India: ...">>]
    ELSE LET error_msg ==
                 CASE env = "401" -> <<"Invalid OpenWeatherMap API key.">>
                   [] env = "404" -> <<"City '", city, "' not found.">>
                   [] OTHER -> <<"">>
         IN  [success |-> FALSE,
              error |-> error_msg,
              city |-> city,
              context_summary |->
                  <<"Weather data for ", city, " is unavailable. Error: ">> \o error_msg]

\* ------------------------------------------------------ MarketPriceTool.get_price

\* the price table: not loaded (prices_df is None), without or with a row that
\* holds the commodity, or such that the filter raises
MarketData == {"not_loaded", "no_match", "match", "error"}

GetPrice(commodity, env) ==
    CASE env = "not_loaded" ->
            [success |-> FALSE,
             error |-> <<"Market price data not available. Check file path.">>,
             context_summary |-> <<"Market price data is currently unavailable.">>]
      [] env = "no_match" ->
            [success |-> FALSE,
             error |-> <<"No price data found for ">> \o commodity,
             commodity |-> commodity,
             context_summary |->
                 <<"No recent market price data found for ">> \o commodity \o <<".">>]
      [] env = "match" ->
            [success |-> TRUE,
             commodity |-> commodity,
             context_summary |->
                 <<"Found market price records for ">> \o Upper(commodity) \o <<":">>]
      [] OTHER ->
            [success |-> FALSE,
             error |-> <<"">>,
             context_summary |-> <<"Error fetching market price data: ", "">>]

\* The rows a loaded table is made of, with the columns the tool requires
\* (required_cols); Date, Variety and the prices are the same in every row.
PriceRows ==
    { [Commodity |-> <<"Tomato">>, Market |-> <<"Hyderabad">>],
      [Commodity |-> <<"Wheat">>, Market |-> <<"Hyderabad">>],
      [Commodity |-> <<"Wheat">>, Market |-> <<"Tomato", " ", "Yard">>] }

\* self.prices_df after a successful load, with at least one row
PriceTables == UNION {[1..n -> PriceRows] : n \in 1..MaxRows}

\* the names get_price may be asked for
PriceNames == {<<"tomato">>, <<"Wheat">>, <<"rice">>, <<"general commodity">>}

\* `str(row)` for row i of the table: one line per column with its label and
\* its value, then the line with the row's name and dtype
RowStr(row, i) ==
    <<"Date", "  ", "01/01/2024", "\n", "Commodity", "  ">> \o row.Commodity
    \o <<"\n", "Market", "  ">> \o row.Market
    \o <<"\n", "Variety", "  ", "Local", "\n",
         "Min_", "P", "rice", "  ", "1000", "\n",
         "Max_", "P", "rice", "  ", "2000", "\n",
         "Name: ", CASE i = 1 -> "0" [] i = 2 -> "1" [] i = 3 -> "2" [] i = 4 -> "3"
                     [] i = 5 -> "4" [] i = 6 -> "5" [] i = 7 -> "6" [] OTHER -> "7",
         ", dtype: object">>

\* `lambda row: commodity_lower in str(row).lower()`
RowMatches(commodity_lower, row, i) == In(commodity_lower, Lower(RowStr(row, i)))

\* `self.prices_df[self.prices_df.apply(..., axis=1)]`, from row i on, then
\* `matches.to_dict('records')`
RECURSIVE PriceRecords(_, _, _)
PriceRecords(prices_df, commodity_lower, i) ==
    IF i > Len(prices_df) THEN <<>>
    ELSE (IF RowMatches(commodity_lower, prices_df[i], i) THEN <<prices_df[i]>> ELSE <<>>)
         \o PriceRecords(prices_df, commodity_lower, i + 1)

\* `price_records[:5]`
TopRecords(price_records) ==
    SubSeq(price_records, 1, IF Len(price_records) < 5 THEN Len(price_records) ELSE 5)

\* get_price(commodity) when self.prices_df is the loaded table prices_df
GetPriceLoaded(commodity, prices_df) ==
    LET price_records == PriceRecords(prices_df, Lower(commodity), 1)
    IN  IF Len(price_records) = 0
        THEN GetPrice(commodity, "no_match")
        ELSE [records_found |-> Len(price_records), prices |-> TopRecords(price_records)]
             @@ GetPrice(commodity, "match")

\* ---------------------------------------------------- WaterDataTool.get_water_info

GetWaterInfo(region) ==
    [success |-> TRUE,
     region |-> region,
     context_summary |-> <<"Water & Irrigation Data for ", region, ": ...">>]

\* ----------------------------------------------------- PestAdvisoryTool.get_pest_info

\* the keys of self.common_pests
common_pests == {<<"tomato">>, <<"rice">>, <<"cotton">>, <<"wheat">>}

GetPestInfo(crop) ==
    LET advice == IF Lower(crop) \in common_pests
                  THEN <<"Common pests for ">> \o crop \o <<": ...">>
                  ELSE <<"No specific common pest list found for '">> \o crop \o <<"'. ...">>
    IN  [success |-> TRUE,
         crop |-> crop,
         advice |-> advice,
         context_summary |-> advice]

\* ------------------------------------------------------------ AgriAgent.query
\* One call of query(), from the decision to the returned dict.  The pool and
\* the two generation clients appear here only through the way a generate()
\* call ends.

\* the pool and the request handlers left aside
Quiet ==
    /\ api_keys = <<>>
    /\ cooldown_minutes = 1
    /\ current_index = 0
    /\ failed_keys = <<>>
    /\ now = 0
    /\ last = NoCall
    /\ marked = <<>>
    /\ run = <<>>
    /\ runStart = 0
    /\ pc = [r \in Requests |-> "idle"]
    /\ phase = [r \in Requests |-> "none"]
    /\ attempt = [r \in Requests |-> 0]
    /\ api_key = [r \in Requests |-> None]
    /\ gnk = [r \in Requests |-> NoScan]
    /\ gen = [r \in Requests |-> NoGen]
    /\ outcome = [r \in Requests |-> NoOutcome]
    /\ answer = [r \in Requests |-> "none"]

\* `d[key] = value`
DictPut(d, key, value) == [k \in DOMAIN d \cup {key} |-> IF k = key THEN value ELSE d[k]]

\* the candidate lists of query()
commodities ==
    << <<"rice">>, <<"wheat">>, <<"cotton">>, <<"tomato">>,
       <<"maize">>, <<"paddy">>, <<"chili">>, <<"mango">> >>
crops ==
    << <<"rice">>, <<"wheat">>, <<"cotton">>, <<"tomato">>,
       <<"mango">>, <<"chili">>, <<"maize">>, <<"paddy">> >>

\* One section of the evidence bundle, "[label]\nbody\n"; a section of a
\* knowledge-base hit also carries its number, source and score in the label.
Section(label, item, source, score, body) ==
    [label |-> label, item |-> item, source |-> source, score |-> score, body |-> body]

\* the sections of the hits: `for i, (result, score) in enumerate(zip(...), 1)`
RagSectionsTopHitOnly(rs, scores, i) ==
    IF i > Len(rs) \/ i > Len(scores) THEN <<>>
    ELSE <<Section(<<"RAG Knowledge Base - Context">>, i, rs[i].source, scores[i],
                   <<rs[i].text>>)>>
RECURSIVE RagSections(_, _, _)
RagSections(rs, scores, i) ==
    IF i > Len(rs) \/ i > Len(scores) THEN <<>>
    ELSE <<Section(<<"RAG Knowledge Base - Context">>, i, rs[i].source, scores[i],
                   <<rs[i].text>>)>>
         \o RagSections(rs, scores, i + 1)

\* what STEP 2 appends to context_parts for rag_result
RagParts(rag_result) ==
    IF rag_result.success
    THEN IF rag_result.is_relevant
         THEN RagSections(rag_result.results, rag_result.scores, 1)
         ELSE <<Section(<<"RAG Knowledge Base">>, 0, "", 0,
                        <<"No relevant information found (Score below threshold).">>)>>
    ELSE <<Section(<<"RAG Knowledge Base">>, 0, "", 0,
                   <<"Tool failed to execute: ">>
                       \o DictGet(rag_result, "error", <<"Unknown Error">>))>>

\* process_tool_result(tool_name, data, context_name): tools_used and
\* context_parts after the call
ProcessToolResultSuccessOnly(tool_name, data, context_name, used, parts) ==
    LET summary == DictGet(data, "context_summary", <<>>)
    IN  IF data.success /\ ~IsEmptyText(summary)
        THEN [tools_used |-> Append(used, tool_name),
              context_parts |-> Append(parts, Section(context_name, 0, "", 0, summary))]
        ELSE [tools_used |-> used, context_parts |-> parts]
ProcessToolResult(tool_name, data, context_name, used, parts) ==
    LET summary == DictGet(data, "context_summary", <<>>)
    IN  IF data.success /\ ~IsEmptyText(summary)
        THEN [tools_used |-> Append(used, tool_name),
              context_parts |-> Append(parts, Section(context_name, 0, "", 0, summary))]
        ELSE IF ~IsEmptyText(summary)
        THEN [tools_used |-> used,
              context_parts |->
                  Append(parts, Section(context_name, 0, "", 0,
                                        <<"Data unavailable. ">> \o summary))]
        ELSE [tools_used |-> used, context_parts |-> parts]

\* the code points of the tool names
CodePoints(name) ==
    CASE name = "RAG" -> <<82, 65, 71>>
      [] name = "Weather" -> <<87, 101, 97, 116, 104, 101, 114>>
      [] name = "Market" -> <<77, 97, 114, 107, 101, 116>>
      [] name = "Water" -> <<87, 97, 116, 101, 114>>
      [] name = "Pest" -> <<80, 101, 115, 116>>

\* a < b on strings, by code points
RECURSIVE StrLess(_, _)
StrLess(a, b) ==
    IF b = <<>> THEN FALSE
    ELSE IF a = <<>> THEN TRUE
    ELSE IF Head(a) # Head(b) THEN Head(a) < Head(b)
    ELSE StrLess(Tail(a), Tail(b))

\* sorted(S) for a set of names
RECURSIVE SortNames(_)
SortNames(S) ==
    IF S = {} THEN <<>>
    ELSE LET m == CHOOSE x \in S :
                      \A y \in S \ {x} : StrLess(CodePoints(x), CodePoints(y))
         IN  <<m>> \o SortNames(S \ {m})

\* `sorted(list(set(tools_used)))`
SortedUniqueForgotten(used) == used
SortedUnique(used) == SortNames(Range(used))

\* What the index returns for the question in query(), where k and threshold
\* have their default values (three hits, 0.35) and the stores hold two
\* entries each: the search raises, no hit is accepted, one is, two are.
QueryHits ==
    { << [distance |-> 20, idx |-> 0], [distance |-> 20, idx |-> 1], [distance |-> 20, idx |-> 0 - 1] >>,
      << [distance |-> 0, idx |-> 0], [distance |-> 20, idx |-> 1], [distance |-> 20, idx |-> 0 - 1] >>,
      << [distance |-> 0, idx |-> 1], [distance |-> 10, idx |-> 0], [distance |-> 20, idx |-> 0 - 1] >> }

QuerySearches ==
    {[documents |-> Documents(2), metadata |-> Metadata(2), threshold |-> DefaultThreshold,
      raises |-> FALSE, hits |-> h] : h \in QueryHits}
    \cup
    {[documents |-> Documents(2), metadata |-> Metadata(2), threshold |-> DefaultThreshold,
      raises |-> TRUE, hits |-> <<>>]}

\* the order of the steps of query()
AfterStepSearchLast(step) ==
    CASE step = "decide" -> "weather"
      [] step = "weather" -> "market"
      [] step = "market" -> "water"
      [] step = "water" -> "pest"
      [] step = "pest" -> "rag"
      [] step = "rag" -> "generate"
      [] OTHER -> "done"
AfterStepMarketFirst(step) ==
    CASE step = "decide" -> "rag"
      [] step = "rag" -> "market"
      [] step = "market" -> "weather"
      [] step = "weather" -> "water"
      [] step = "water" -> "pest"
      [] step = "pest" -> "generate"
      [] OTHER -> "done"
AfterStep(step) ==
    CASE step = "decide" -> "rag"
      [] step = "rag" -> "weather"
      [] step = "weather" -> "market"
      [] step = "market" -> "water"
      [] step = "water" -> "pest"
      [] step = "pest" -> "generate"
      [] OTHER -> "done"

\* query(question) is called
InitQuery ==
    /\ Quiet
    /\ NoSearch
    /\ NoPrice
    /\ question \in Questions
    /\ qpc = "decide"
    /\ reply = NoReply
    /\ tool_decisions = NoDict
    /\ results = NoDict
    /\ tools_used = <<>>
    /\ context_parts = <<>>
    /\ result = NoDict

\* STEP 1: `tool_decisions = self.agent_llm.decide_tools(question)`
DecideStep ==
    /\ qpc = "decide"
    /\ \E g \in DecideReplies :
          LET d == DecideTools(question, g)
          IN  /\ reply' = g
              /\ tool_decisions' = d.value
              /\ qpc' = IF d.exc = "none" THEN AfterStep("decide") ELSE "raised"
    /\ UNCHANGED <<poolVars, histVars, reqVars, searchVars, priceVars,
                   question, results, tools_used, context_parts, result>>

\* STEP 2: the knowledge-base search
RagStep ==
    /\ qpc = "rag"
    /\ IF Truthy(DictGet(tool_decisions, "rag", Py(TRUE)))
       THEN \E a \in QuerySearches :
               LET rag_result == Search(a)
               IN  /\ results' = DictPut(results, "RAG", rag_result)
                   /\ tools_used' = IF rag_result.success
                                    THEN Append(tools_used, "RAG") ELSE tools_used
                   /\ context_parts' = context_parts \o RagParts(rag_result)
       ELSE UNCHANGED <<results, tools_used, context_parts>>
    /\ qpc' = AfterStep("rag")
    /\ reply' = NoReply
    /\ UNCHANGED <<poolVars, histVars, reqVars, searchVars, priceVars, question, tool_decisions, result>>

\* STEP 3a: `if tool_decisions.get('weather')`
WeatherStep ==
    /\ qpc = "weather"
    /\ IF Truthy(DictGet(tool_decisions, "weather", "None"))
       THEN \E env \in WeatherReplies :
               LET weather_data == GetWeather("Hyderabad", env)
                   p == ProcessToolResult("Weather", weather_data, <<"LIVE WEATHER DATA">>,
                                          tools_used, context_parts)
               IN  /\ results' = DictPut(results, "Weather", weather_data)
                   /\ tools_used' = p.tools_used
                   /\ context_parts' = p.context_parts
       ELSE UNCHANGED <<results, tools_used, context_parts>>
    /\ qpc' = AfterStep("weather")
    /\ UNCHANGED <<poolVars, histVars, reqVars, searchVars, priceVars,
                   question, reply, tool_decisions, result>>

\* STEP 3b: `if tool_decisions.get('market')`
MarketStep ==
    /\ qpc = "market"
    /\ IF Truthy(DictGet(tool_decisions, "market", "None"))
       THEN \E env \in MarketData :
               LET commodity == FirstIn(commodities, Lower(question), <<"general commodity">>)
                   market_data == GetPrice(commodity, env)
                   p == ProcessToolResult("Market", market_data,
                                          <<"MARKET PRICE DATA - ">> \o Upper(commodity),
                                          tools_used, context_parts)
               IN  /\ results' = DictPut(results, "Market", market_data)
                   /\ tools_used' = p.tools_used
                   /\ context_parts' = p.context_parts
       ELSE UNCHANGED <<results, tools_used, context_parts>>
    /\ qpc' = AfterStep("market")
    /\ UNCHANGED <<poolVars, histVars, reqVars, searchVars, priceVars,
                   question, reply, tool_decisions, result>>

\* STEP 3c: `if tool_decisions.get('water')`
WaterStep ==
    /\ qpc = "water"
    /\ IF Truthy(DictGet(tool_decisions, "water", "None"))
       THEN LET water_data == GetWaterInfo("Telangana")
                p == ProcessToolResult("Water", water_data, <<"WATER & IRRIGATION DATA">>,
                                       tools_used, context_parts)
            IN  /\ results' = DictPut(results, "Water", water_data)
                /\ tools_used' = p.tools_used
                /\ context_parts' = p.context_parts
       ELSE UNCHANGED <<results, tools_used, context_parts>>
    /\ qpc' = AfterStep("water")
    /\ UNCHANGED <<poolVars, histVars, reqVars, searchVars, priceVars,
                   question, reply, tool_decisions, result>>

\* STEP 3d: `if tool_decisions.get('pest')`
PestStep ==
    /\ qpc = "pest"
    /\ IF Truthy(DictGet(tool_decisions, "pest", "None"))
       THEN LET crop == FirstIn(crops, Lower(question), <<"general crop">>)
                pest_data == GetPestInfo(crop)
                p == ProcessToolResult("Pest", pest_data,
                                       <<"PEST ADVISORY - ">> \o Upper(crop),
                                       tools_used, context_parts)
            IN  /\ results' = DictPut(results, "Pest", pest_data)
                /\ tools_used' = p.tools_used
                /\ context_parts' = p.context_parts
       ELSE UNCHANGED <<results, tools_used, context_parts>>
    /\ qpc' = AfterStep("pest")
    /\ UNCHANGED <<poolVars, histVars, reqVars, searchVars, priceVars,
                   question, reply, tool_decisions, result>>

\* STEP 4: the answer generation and its except clauses, and the return
AnswerStep ==
    /\ qpc = "generate"
    /\ \E k \in GenerateEndings :
          /\ reply' = [kind |-> k, text |-> <<>>]
          /\ result' = [question |-> question,
                        answer |-> AnswerOf([kind |-> k, cause |-> NoError]),
                        tools_used |-> SortedUnique(tools_used),
                        context |-> context_parts]
    /\ qpc' = AfterStep("generate")
    /\ UNCHANGED <<poolVars, histVars, reqVars, searchVars, priceVars,
                   question, tool_decisions, results, tools_used, context_parts>>

NextQuery ==
    \/ DecideStep
    \/ RagStep
    \/ WeatherStep
    \/ MarketStep
    \/ WaterStep
    \/ PestStep
    \/ AnswerStep

SpecQuery == InitQuery /\ [][NextQuery]_vars

\* ------------------------------------------------- RAGTool.search, called alone

InitSearch ==
    /\ Quiet
    /\ NoQuery
    /\ NoPrice
    /\ search_args \in SearchArgs(MaxDocs, MaxHits)
    /\ search_result = NoDict

\* rag_tool.search(query, k, threshold)
SearchCall ==
    /\ search_result = NoDict
    /\ search_result' = Search(search_args)
    /\ UNCHANGED <<poolVars, histVars, reqVars, queryVars, priceVars, search_args>>

NextSearch == SearchCall

SpecSearch == InitSearch /\ [][NextSearch]_vars

\* ------------------------------------- MarketPriceTool.get_price, called alone

InitPrice ==
    /\ Quiet
    /\ NoQuery
    /\ NoSearch
    /\ price_args \in [prices_df : PriceTables, commodity : PriceNames]
    /\ price_result = NoDict

\* market_tool.get_price(commodity)
GetPriceCall ==
    /\ price_result = NoDict
    /\ price_result' = GetPriceLoaded(price_args.commodity, price_args.prices_df)
    /\ UNCHANGED <<poolVars, histVars, reqVars, queryVars, searchVars, price_args>>

NextPrice == GetPriceCall

SpecPrice == InitPrice /\ [][NextPrice]_vars

\* =================================================================== claims
\* A credential the pool treats as disabled by the claim's own measure: it was
\* marked with a recognized code and its cooldown has not yet elapsed.
InCooldown(c) == c \in DOMAIN marked /\ now < marked[c] + cooldown_minutes

\* C1: on a pool of N >= 1 credentials with none disabled, get_next_key calls
\* made in a row return the credentials in list order starting at the cursor:
\* N calls return each credential exactly once and call N+1 returns the first
\* one again.
C1_RotationOrder ==
    LET N == Len(api_keys)
    IN  N >= 1 =>
          /\ \A i \in 1..Len(run) : run[i] = api_keys[((runStart + i - 1) % N) + 1]
          /\ Len(run) >= N =>
                /\ \A i, j \in 1..N : i # j => run[i] # run[j]
                /\ {run[i] : i \in 1..N} = Range(api_keys)
          /\ Len(run) >= N + 1 => run[N + 1] = run[1]

C1_Witness ==
    /\ Len(api_keys) >= 2
    /\ Len(run) = Len(api_keys) + 1
    /\ runStart # 0

\* C2: a get_next_key call made while the cooldown of a credential c marked
\* with a recognized code has not elapsed does not return c.
C2_NoReturnDuringCooldown ==
    [][GetNextKeyCall => \A c \in Range(api_keys) : InCooldown(c) => last'.key # c]_vars

C2_Witness ==
    /\ last.op = "get"
    /\ last.key # None
    /\ last.examined >= 2
    /\ \E c \in Range(api_keys) : InCooldown(c) /\ c \in DOMAIN failed_keys

\* C3: a get_next_key call made at failure time + cooldown, or later, finds the
\* failed credential eligible again: it leaves the failed map, and is returned
\* when it is the candidate at the cursor.
C3_EligibleAtExpiry ==
    [][GetNextKeyCall =>
          \A c \in DOMAIN marked :
              now >= marked[c] + cooldown_minutes =>
                  /\ c \notin DOMAIN failed_keys'
                  /\ api_keys[current_index + 1] = c => last'.key = c]_vars

\* C4: get_next_key examines at most N candidates, and returns None after one
\* full rotation when every credential is disabled or the pool is empty.
C4_BoundedSearch ==
    [][GetNextKeyCall =>
          /\ last'.examined <= Len(api_keys)
          /\ (\A k \in Range(api_keys) : InCooldown(k)) =>
                /\ last'.key = None
                /\ last'.examined = Len(api_keys)]_vars

C4_Witness ==
    /\ Len(api_keys) = MaxKeys
    /\ last.op = "get"
    /\ last.key = None
    /\ last.examined = Len(api_keys)
    /\ \A k \in Range(api_keys) : InCooldown(k)

\* C5: mark_key_failed with a code that is not recognized changes neither the
\* failed map nor the cursor (nor the pool's configuration).
C5_UnrecognizedCodeNoOp ==
    [][(last'.op = "mark" /\ last'.code \notin rate_limit_codes) =>
          UNCHANGED <<failed_keys, current_index, api_keys, cooldown_minutes>>]_vars

C5_Witness ==
    /\ last.op = "mark"
    /\ last.code = 400
    /\ last.key \notin DOMAIN failed_keys
    /\ failed_keys # <<>>

\* The steps of request r.
RequestStep(r) ==
    \/ Begin(r) \/ ExpireScan(r) \/ ExpireDelete(r) \/ ScanRead(r) \/ ScanAdvance(r)
    \/ RemoteCall(r) \/ FinalRaise(r) \/ Decided(r) \/ Answered(r) \/ Respond(r)

\* r is inside a generate() call.
Generating(r) == pc[r] \in {"lookup", "expire", "scan", "advance", "post", "exhausted"}

\* The failed map holds exactly what mark_key_failed put there and the clean-up
\* has not yet taken out: no entry is lost before its cooldown has elapsed, no
\* entry is spurious or carries another time.
FailedMapSound ==
    /\ \A k \in DOMAIN marked :
          now - marked[k] <= cooldown_minutes => k \in DOMAIN failed_keys
    /\ \A k \in DOMAIN failed_keys : k \in DOMAIN marked /\ failed_keys[k] = marked[k]

\* The credentials a lookup can return.
Usable(failed) == {k \in Range(api_keys) : k \notin DOMAIN failed}

\* C6: the pool calls of requests in flight together take effect one at a
\* time: every get_next_key call returns, and leaves the cursor and the failed
\* map, as the whole call run alone on the pool state it started from; two
\* lookups in a row by different requests return different credentials unless
\* at most one is usable; no call fails while the failed map is cleaned; and
\* the failed map stays sound.
C6_CallsTakeEffectOneAtATime ==
    [][/\ \A r \in Requests :
            /\ (pc[r] \in {"scan", "advance"} /\ pc'[r] \in {"post", "returned"}) =>
                  LET alone == GetNextKey(api_keys, gnk[r].failed0, gnk[r].index0,
                                          gnk[r].time0, cooldown_minutes)
                  IN  /\ api_key'[r] = alone.key
                      /\ current_index' = alone.index
                      /\ failed_keys' = alone.failed
                      /\ (/\ last.op = "get"
                          /\ last.who # r
                          /\ last.key # None
                          /\ api_key'[r] = last.key)
                            => Cardinality(Usable(failed_keys')) <= 1
            /\ pc[r] = "expire" => pc'[r] = "scan"
       /\ FailedMapSound']_vars

C6_Witness ==
    \E r \in Requests :
        /\ pc[r] = "advance"
        /\ IsAvailable(gnk[r].key, failed_keys)
        /\ last.op = "get"
        /\ last.who \notin {r, 0}
        /\ last.key \notin {None, gnk[r].key}
        /\ failed_keys # <<>>

\* C7: generate ends with ConnectionError exactly when its last lookup returned
\* no credential, and then no remote call was issued for that attempt; a remote
\* call is only issued with a credential.
C7_ExhaustedIsDistinct ==
    \A r \in Requests :
        /\ pc[r] = "post" => api_key[r] # None
        /\ pc[r] = "returned" =>
              /\ (outcome[r].kind = "ConnectionError") <=> (api_key[r] = None)
              /\ api_key[r] = None => gen[r].calls = gen[r].lookups - 1
              /\ api_key[r] # None => gen[r].calls = gen[r].lookups

C7_Witness ==
    \E r \in Requests :
        /\ pc[r] = "returned"
        /\ outcome[r].kind = "ConnectionError"
        /\ gen[r].calls >= 1

\* C8: a generate call makes at most max_retries lookups and at most
\* max_retries remote calls, and while it has not ended it can take a step.
C8_BoundedAttempts ==
    \A r \in Requests :
        /\ attempt[r] <= max_retries
        /\ gen[r].lookups <= max_retries
        /\ gen[r].calls <= max_retries
        /\ gen[r].calls <= gen[r].lookups
        /\ Generating(r) => ENABLED RequestStep(r)

C8_Witness ==
    \E r \in Requests :
        /\ pc[r] = "returned"
        /\ gen[r].lookups = max_retries
        /\ gen[r].calls = max_retries
        /\ gen[r].rate
        /\ gen[r].other

C10_QuotaNeverSurfaced ==
    \A r \in Requests :
        (/\ pc[r] = "returned"
         /\ gen[r].rate
         /\ ~gen[r].other
         /\ outcome[r].kind # "KeyError")
            => /\ outcome[r].kind \in {"text", "ConnectionError"}
               /\ AnswerOf(outcome[r]) # "internal_error"

\* The names of the sources whose call in this query succeeded.
Succeeded == {t \in DOMAIN results : results[t].success}

C12_RagAlwaysTrue ==
    qpc \notin {"none", "decide"} =>
        /\ qpc # "raised"
        /\ "rag" \in DOMAIN tool_decisions
        /\ tool_decisions["rag"] = Py(TRUE)

C12_Witness ==
    /\ qpc = "rag"
    /\ reply.kind = "text"
    /\ reply.text = <<"{", "\"rag\": false", "}">>
    /\ tool_decisions["rag"] = Py(TRUE)

\* The keyword w occurs in the text q.
Occurs(w, q) ==
    \E i \in 1..Len(q) :
        /\ i + Len(w) - 1 <= Len(q)
        /\ \A j \in 1..Len(w) : q[i + j - 1] = w[j]

\* The keywords of a tool.
KeywordsOf(k) ==
    CASE k = "weather" -> Range(weather_keywords)
      [] k = "market" -> Range(market_keywords)
      [] k = "water" -> Range(water_keywords)
      [] k = "pest" -> Range(pest_keywords)
      [] OTHER -> {}

\* The decision by keywords: 'rag' is true, and each other flag is true iff a
\* keyword of the tool occurs in the lowercased question.
KeywordDecision(q) ==
    [k \in {"rag", "weather", "market", "water", "pest"} |->
        Py(k = "rag" \/ \E w \in KeywordsOf(k) : Occurs(w, Lower(q)))]

\* The text t holds no "{" with a "}" after it.
NoBraces(t) == ~ \E i, j \in 1..Len(t) : i < j /\ t[i] = "{" /\ t[j] = "}"

\* The spans "{" ... "}" of t with one or more pieces other than "}" between.
Spans(t) ==
    {<<i, j>> \in (1..Len(t)) \X (1..Len(t)) :
        /\ i + 2 <= j
        /\ t[i] = "{"
        /\ t[j] = "}"
        /\ \A x \in (i + 1)..(j - 1) : t[x] # "}"}

\* The first span of t is not the text of a JSON object.
FirstSpanInvalid(t) ==
    \E s \in Spans(t) :
        /\ \A o \in Spans(t) : s[1] <= o[1]
        /\ \E x \in (s[1] + 1)..(s[2] - 1) : t[x] \notin Members \cup {" "}

\* C13: decide_tools never raises, and when the model call failed, the reply
\* holds no brace-delimited object or the extracted object is not valid JSON,
\* the decision returned is exactly the keyword decision for the question.
C13_FallbackOnAnyFailure ==
    /\ qpc # "raised"
    /\ (/\ qpc = "rag"
        /\ \/ reply.kind # "text"
           \/ NoBraces(reply.text)
           \/ FirstSpanInvalid(reply.text))
          => tool_decisions = KeywordDecision(question)

C13_Witness ==
    /\ qpc = "rag"
    /\ question = ExampleQuestion
    /\ reply.kind = "text"
    /\ reply.text # <<>>
    /\ NoBraces(reply.text)
    /\ Truthy(tool_decisions["weather"])
    /\ Truthy(tool_decisions["market"])
    /\ ~Truthy(tool_decisions["pest"])

\* The spans of t that are the text of a JSON object: "{", members and white
\* space, "}".
Objects(t) ==
    {<<i, j>> \in (1..Len(t)) \X (1..Len(t)) :
        /\ i < j
        /\ t[i] = "{"
        /\ t[j] = "}"
        /\ \A x \in (i + 1)..(j - 1) : t[x] \in Members \cup {" "}}

\* The value the object in span s of t gives to key k, False when it has no
\* member of that key (the last member of a key counts).
Supplied(t, s, k) ==
    LET of_k == {x \in (s[1] + 1)..(s[2] - 1) : t[x] \in Members /\ MemberKey(t[x]) = k}
    IN  IF of_k = {} THEN Py(FALSE)
        ELSE MemberValue(t[CHOOSE x \in of_k : \A y \in of_k : y <= x])

\* C14: when the reply holds a parseable JSON object, the decision has exactly
\* the five recognized keys, and each of weather, market, water and pest has
\* the value the (first) object supplies, false when the object omits the key.
C14_ProjectionOfParsedObject ==
    (/\ qpc = "rag"
     /\ reply.kind = "text"
     /\ Objects(reply.text) # {})
        => LET s == CHOOSE o \in Objects(reply.text) :
                        \A p \in Objects(reply.text) : o[1] <= p[1]
           IN  /\ DOMAIN tool_decisions = {"rag", "weather", "market", "water", "pest"}
               /\ \A k \in {"weather", "market", "water", "pest"} :
                     tool_decisions[k] = Supplied(reply.text, s, k)

\* The place of the source of a section in the order knowledge-base, weather,
\* market, water, pest, read from the section's label.
RankOf(section) ==
    CASE section.label[1] \in {"RAG Knowledge Base", "RAG Knowledge Base - Context"} -> 1
      [] section.label[1] = "LIVE WEATHER DATA" -> 2
      [] section.label[1] = "MARKET PRICE DATA - " -> 3
      [] section.label[1] = "WATER & IRRIGATION DATA" -> 4
      [] section.label[1] = "PEST ADVISORY - " -> 5
      [] OTHER -> 0

Ranks(parts) == [i \in DOMAIN parts |-> RankOf(parts[i])]

\* C15: the sections of the evidence bundle stand in the order knowledge-base,
\* weather, market, water, pest, each source other than the knowledge base
\* with at most one section; the bundle returned is the one built in that order.
C15_SectionsInFixedOrder ==
    /\ \A i, j \in DOMAIN context_parts :
          i < j =>
             /\ RankOf(context_parts[i]) >= 1
             /\ RankOf(context_parts[i]) <= RankOf(context_parts[j])
             /\ RankOf(context_parts[j]) > 1 =>
                    RankOf(context_parts[i]) < RankOf(context_parts[j])
    /\ qpc = "done" => result.context = context_parts

C15_Witness ==
    /\ qpc = "done"
    /\ Truthy(tool_decisions["weather"])
    /\ Truthy(tool_decisions["pest"])
    /\ ~Truthy(tool_decisions["market"])
    /\ ~Truthy(tool_decisions["water"])
    /\ Ranks(result.context) = <<1, 2, 5>>

\* The names of the sources in ascending order of Python's string comparison.
NamesInOrder == <<"Market", "Pest", "RAG", "Water", "Weather">>

HasSucceeded(name) == name \in Succeeded

\* The flag of the decision that asks for a source.
FlagOf(name) ==
    CASE name = "RAG" -> "rag"
      [] name = "Weather" -> "weather"
      [] name = "Market" -> "market"
      [] name = "Water" -> "water"
      [] OTHER -> "pest"

\* C16: the tools_used list query() returns is the ascending list, without
\* repetition, of the names of the sources that were invoked in this query
\* (their flag was set) and whose call succeeded; 'RAG' is in it whenever the
\* search succeeded, relevant hit or not, and is not in it when the search failed.
C16_ToolsUsedSortedSucceeded ==
    qpc = "done" =>
        /\ result.tools_used = SelectSeq(NamesInOrder, HasSucceeded)
        /\ \A name \in Range(NamesInOrder) :
              name \in DOMAIN results <=> Truthy(tool_decisions[FlagOf(name)])
        /\ \A i, j \in DOMAIN result.tools_used :
              i # j => result.tools_used[i] # result.tools_used[j]
        /\ ("RAG" \in Range(result.tools_used)) <=> results["RAG"].success

C16_Witness ==
    /\ qpc = "done"
    /\ results["RAG"].success
    /\ ~results["RAG"].is_relevant
    /\ "Weather" \in DOMAIN results
    /\ ~results["Weather"].success
    /\ result.tools_used = <<"Market", "RAG">>

\* The place of a source in the order of the bundle.
PlaceOf(name) ==
    CASE name = "RAG" -> 1
      [] name = "Weather" -> 2
      [] name = "Market" -> 3
      [] name = "Water" -> 4
      [] OTHER -> 5

\* The sections of the bundle that belong to a source.
SectionsOf(bundle, name) ==
    {i \in DOMAIN bundle : RankOf(bundle[i]) = PlaceOf(name)}

\* C17: for every flag of the decision that is set, the bundle query() returns
\* has a labeled section of that source; when the source failed, the section
\* says so (the data-unavailable summary of a tool, the failure of the search).
C17_NoRequestedToolDropped ==
    qpc = "done" =>
        \A name \in Range(NamesInOrder) :
            Truthy(tool_decisions[FlagOf(name)]) =>
                /\ SectionsOf(result.context, name) # {}
                /\ ~results[name].success =>
                      \A i \in SectionsOf(result.context, name) :
                          result.context[i].body[1] \in
                              {"Data unavailable. ", "Tool failed to execute: "}

C17_Witness ==
    /\ qpc = "done"
    /\ Truthy(tool_decisions["weather"])
    /\ ~results["Weather"].success
    /\ \E i \in SectionsOf(result.context, "Weather") :
          result.context[i].body[1] = "Data unavailable. "
    /\ ~results["RAG"].success

\* C18: no evidence source raises into query(), and every failed result a
\* source returns has a context_summary that is not empty.
C18_FailedResultsCarrySummary ==
    /\ qpc # "raised"
    /\ \A name \in DOMAIN results :
          ~results[name].success =>
              /\ "context_summary" \in DOMAIN results[name]
              /\ ~IsEmptyText(results[name].context_summary)

\* The search has been made.
Searched == search_result # NoDict

\* The similarity of a hit whose returned squared distance is d: 1 - d / 2
\* (d in tenths, the similarity in two-hundredths).
ExactSimilarity(d) == SimilarityOne - 10 * d

\* The position of a hit is within both stores.
InBothStores(h) ==
    /\ 0 <= h.idx
    /\ h.idx < Len(search_args.documents)
    /\ h.idx < Len(search_args.metadata)

AcceptedExactly(h) ==
    InBothStores(h) /\ ExactSimilarity(h.distance) >= search_args.threshold

\* C19: the scores search() returns are the exact similarities 1 - d / 2 of
\* the squared distances d the index returned (1 for d = 0, 0 for d = 2), and
\* the hits it accepts are those whose similarity is at or above the threshold.
C19_SimilarityExact ==
    (Searched /\ search_result.success) =>
        LET accepted == SelectSeq(search_args.hits, AcceptedExactly)
        IN  /\ Len(search_result.results) = Len(accepted)
            /\ search_result.scores =
                  [i \in 1..Len(accepted) |-> ExactSimilarity(accepted[i].distance)]

AcceptedByCode(h) ==
    InBothStores(h) /\ Similarity(h.distance) >= search_args.threshold

\* C20: a position the index returns that is out of range of the documents or
\* of the metadata is skipped: the search succeeds, and its results are the
\* accepted hits whose position is within both stores, in the order returned.
C20_OutOfRangeSkipped ==
    (Searched /\ ~search_args.raises) =>
        /\ search_result.success
        /\ LET kept == SelectSeq(search_args.hits, AcceptedByCode)
           IN  search_result.results =
                  [i \in 1..Len(kept) |->
                      [text |-> search_args.documents[kept[i].idx + 1],
                       source |-> search_args.metadata[kept[i].idx + 1].source,
                       type |-> search_args.metadata[kept[i].idx + 1].type]]

\* get_price has returned
Priced == price_result # NoDict

\* the rows of the table whose commodity holds the name, case-insensitively,
\* in dataset order from row i on
RECURSIVE CommodityRows(_, _, _)
CommodityRows(prices_df, name, i) ==
    IF i > Len(prices_df) THEN <<>>
    ELSE (IF In(Lower(name), Lower(prices_df[i].Commodity)) THEN <<prices_df[i]>> ELSE <<>>)
         \o CommodityRows(prices_df, name, i + 1)

\* C21: on a loaded table get_price(commodity) returns the rows whose commodity
\* holds the name, case-insensitively, and no other row: 'prices' is the first
\* 5 of them in dataset order, 'records_found' is their number, and the call
\* reports no data when there is none.
C21_OnlyCommodityRows ==
    Priced =>
        LET rows == CommodityRows(price_args.prices_df, price_args.commodity, 1)
        IN  /\ price_result.success <=> Len(rows) > 0
            /\ price_result.success =>
                  /\ price_result.records_found = Len(rows)
                  /\ price_result.prices = TopRecords(rows)

\* C22: on a non-empty pool the cursor is always a valid index, every
\* get_next_key call moves it by one (mod N) for each candidate it examined,
\* returned or skipped, and a call that finds every credential disabled ends
\* with the cursor where it started, after one full rotation.
C22_CursorAdvancesPerCandidate ==
    /\ [](Len(api_keys) > 0 => current_index \in 0..(Len(api_keys) - 1))
    /\ [][(GetNextKeyCall /\ Len(api_keys) > 0) =>
             /\ current_index' = (current_index + last'.examined) % Len(api_keys)
             /\ last'.key = None =>
                   /\ last'.examined = Len(api_keys)
                   /\ current_index' = current_index]_vars

C22_Witness ==
    /\ Len(api_keys) >= 2
    /\ last.op = "get"
    /\ last.key = None
    /\ current_index # 0
    /\ DOMAIN failed_keys = Range(api_keys)

\* The place of credential c in the pool (0-based), and the number of
\* candidates between cursor idx and c.
PositionOf(c) == (CHOOSE i \in 1..Len(api_keys) : api_keys[i] = c) - 1
DistanceFrom(idx, c) == (PositionOf(c) - idx + Len(api_keys)) % Len(api_keys)

\* Whether n get_next_key calls in a row from cursor idx return c at least
\* once, whichever set D of other credentials is disabled at each call.
RECURSIVE ReturnedWithin(_, _, _)
ReturnedWithin(c, idx, n) ==
    /\ n > 0
    /\ \A D \in SUBSET (Range(api_keys) \ {c}) :
          LET s == ScanKeys(api_keys, [k \in D |-> now], idx, 0)
          IN  s.key = c \/ ReturnedWithin(c, s.index, n - 1)

\* C23: an enabled credential is not starved.  From every cursor position, N
\* calls in a row return a credential c that stays enabled at least once,
\* whichever other credentials are disabled at each of the calls (computed
\* once for each pool and cursor: in the states reached by lookups alone).
\* And step by step: a get_next_key call made while c is enabled returns c or
\* leaves the cursor strictly nearer to c, never past it, the cursor is always
\* less than N candidates away from c, and no other call moves the cursor.
C23_NoStarvation ==
    /\ []((now = 0 /\ marked = <<>> /\ last.op # "mark") =>
             \A c \in Range(api_keys) : ReturnedWithin(c, current_index, Len(api_keys)))
    /\ [][/\ current_index' # current_index => GetNextKeyCall
          /\ GetNextKeyCall =>
                \A c \in Range(api_keys) \ DOMAIN failed_keys :
                    /\ DistanceFrom(current_index, c) <= Len(api_keys) - 1
                    /\ \/ last'.key = c
                       \/ DistanceFrom(current_index', c) < DistanceFrom(current_index, c)]_vars

C23_Witness ==
    /\ Len(api_keys) = MaxKeys
    /\ last.op = "get"
    /\ last.examined >= 2
    /\ failed_keys # <<>>
    /\ \E c \in Range(api_keys) :
          /\ c \notin DOMAIN failed_keys
          /\ c \notin DOMAIN marked
          /\ last.key = c
          /\ PositionOf(c) = Len(api_keys) - 1

\* The step of r is the end of an attempt that met a rate/quota/unavailability
\* response: generate calls mark_key_failed with the credential of the attempt.
RateLimited(r) == pc[r] = "post" /\ last' # last /\ last'.op = "mark" /\ last'.who = r

\* The step of r is the return of the lookup of the attempt that follows a
\* rate-limited attempt of the same generate() call.
FollowingLookup(r) ==
    /\ gen'[r].lookups = gen[r].lookups + 1
    /\ attempt[r] > 0
    /\ last.op = "mark"
    /\ last.who = r

\* C24: within one generate() call, an attempt that meets a rate/quota/
\* unavailability response on credential c disables exactly c; the attempt
\* that follows gets a credential other than c, and fails with the exhausted
\* error when every other credential of the pool is in cooldown.
C24_RateLimitedCredentialNotReused ==
    [][\A r \in Requests :
          /\ RateLimited(r) =>
                /\ last'.key = api_key[r]
                /\ last'.code \in rate_limit_codes
                /\ DOMAIN failed_keys' = DOMAIN failed_keys \cup {api_key[r]}
                /\ failed_keys'[api_key[r]] = now
                /\ \A k \in DOMAIN failed_keys \ {api_key[r]} : failed_keys'[k] = failed_keys[k]
          /\ FollowingLookup(r) =>
                /\ api_key'[r] # last.key
                /\ (\A k \in Range(api_keys) \ {last.key} : InCooldown(k)) =>
                      /\ api_key'[r] = None
                      /\ pc'[r] = "returned"
                      /\ outcome'[r].kind = "ConnectionError"]_vars

C24_Witness ==
    \E r \in Requests :
        /\ pc[r] = "post"
        /\ attempt[r] = 1
        /\ gen[r].rate
        /\ last.op = "get"
        /\ last.who = r
        /\ Len(api_keys) >= 2
        /\ DOMAIN failed_keys = DOMAIN marked
        /\ Cardinality(DOMAIN failed_keys) = 1
        /\ api_key[r] \notin DOMAIN failed_keys

\* r is between the end of the generate() call of decide_tools and the first
\* candidate the answer generation examines.
HandingOver(r) ==
    \/ pc[r] = "returned" /\ phase[r] = "decide"
    \/ phase[r] = "answer" /\ attempt[r] = 0 /\ gen[r].lookups = 0 /\ pc[r] \in {"lookup", "expire"}

\* C25: the decision client and the answer client work on one pool.  No lookup
\* of an answer generation returns a credential whose cooldown has not elapsed,
\* whichever client's attempt disabled it; and from the end of the decision to
\* the first candidate the answer generation examines the cursor is not moved
\* and the failed map loses only entries whose cooldown has elapsed.
C25_ClientsShareOnePool ==
    [][\A r \in Requests :
          /\ (phase[r] = "answer" /\ gen'[r].lookups = gen[r].lookups + 1) =>
                \A c \in Range(api_keys) : InCooldown(c) => api_key'[r] # c
          /\ HandingOver(r) =>
                /\ current_index' = current_index
                /\ \A k \in DOMAIN failed_keys :
                      \/ k \in DOMAIN failed_keys' /\ failed_keys'[k] = failed_keys[k]
                      \/ now - failed_keys[k] > cooldown_minutes
                /\ DOMAIN failed_keys' \subseteq DOMAIN failed_keys]_vars

\* the answer generation of r holds the credential its first lookup returned
\* after skipping one that is in cooldown, and has met no rate limit itself
C25_Witness ==
    \E r \in Requests :
        /\ phase[r] = "answer"
        /\ pc[r] = "post"
        /\ gen[r].lookups = 1
        /\ ~gen[r].rate
        /\ last.op = "get"
        /\ last.who = r
        /\ last.examined >= 2
        /\ \E c \in Range(api_keys) : InCooldown(c) /\ c # api_key[r]
        /\ \A o \in Requests \ {r} : pc[o] = "idle"

\* C26: the raise after the retry loop of generate() is never reached: the
\* loop is never left by running out of attempts, and a generate() call that
\* ended with the max-retries error carries the error of its last attempt.
C26_FinalRaiseUnreachable ==
    \A r \in Requests :
        /\ pc[r] # "exhausted"
        /\ (pc[r] = "returned" /\ outcome[r].kind = "RuntimeError") =>
              outcome[r].cause # NoError

\* C27: every flag of the decision decide_tools returns is a boolean, and
\* query() invokes the weather, market, water or pest source only when its
\* flag is the boolean true: a value of another type supplied by the model
\* never causes a source to be invoked.
C27_FlagsAreBooleans ==
    qpc \notin {"none", "decide", "raised"} =>
        /\ \A k \in DOMAIN tool_decisions : IsBool(tool_decisions[k])
        /\ \A name \in {"Weather", "Market", "Water", "Pest"} :
              name \in DOMAIN results => tool_decisions[FlagOf(name)] = Py(TRUE)

\* The place of a step of query() in the order decision, knowledge-base search,
\* weather, market, water, pest, answer generation, return.
StepRank(step) ==
    CASE step = "decide" -> 0
      [] step = "rag" -> 1
      [] step = "weather" -> 2
      [] step = "market" -> 3
      [] step = "water" -> 4
      [] step = "pest" -> 5
      [] step = "generate" -> 6
      [] step = "done" -> 7
      [] OTHER -> 0 - 1

\* The source a step of query() calls.
SourceAt(step) ==
    CASE step = "rag" -> {"RAG"}
      [] step = "weather" -> {"Weather"}
      [] step = "market" -> {"Market"}
      [] step = "water" -> {"Water"}
      [] step = "pest" -> {"Pest"}
      [] OTHER -> {}

\* C28: query() takes its steps one after the other in the fixed order, each
\* once.  The decision is there before any source is called; the search is
\* called in the second step, before every other source; a source is called
\* only in its own step and the result of an earlier source is not touched
\* again; the answer generation is called in the step after the last source,
\* once, and no source is called after it.
C28_StepsInStrictOrder ==
    [][/\ StepRank(qpc') = StepRank(qpc) + 1
       /\ DOMAIN results' \ DOMAIN results \subseteq SourceAt(qpc)
       /\ \A name \in DOMAIN results : name \in DOMAIN results' /\ results'[name] = results[name]
       /\ qpc = "decide" => results = NoDict /\ tool_decisions = NoDict /\ tool_decisions' # NoDict
       /\ qpc # "decide" => tool_decisions' = tool_decisions
       /\ qpc = "rag" => "RAG" \notin DOMAIN results /\ "RAG" \in DOMAIN results'
       /\ qpc = "generate" => result = NoDict /\ result' # NoDict /\ reply'.kind # "none"
       /\ qpc # "generate" => result' = NoDict]_vars

C28_Witness ==
    /\ qpc = "done"
    /\ DOMAIN results = {"RAG", "Weather", "Water"}
    /\ result.answer = "text"
    /\ Len(result.context) >= 3

\* The text q names the entry w: w stands in q as a word of its own.
WordBreak(p) == p \in {" ", "?"}
NamesWord(w, q) ==
    \E i \in 1..Len(q) :
        /\ i + Len(w) - 1 <= Len(q)
        /\ \A j \in 1..Len(w) : q[i + j - 1] = w[j]
        /\ i = 1 \/ WordBreak(q[i - 1])
        /\ i + Len(w) - 1 = Len(q) \/ WordBreak(q[i + Len(w)])

\* The first entry of the list that the question names, or the placeholder.
FirstNamed(list, q, placeholder) ==
    LET named == {i \in DOMAIN list : NamesWord(list[i], Lower(q))}
    IN  IF named = {} THEN placeholder
        ELSE list[CHOOSE i \in named : \A j \in named : i <= j]

\* C29: the market source is asked for the first commodity of the candidate
\* list that the question names, the pest source for the first crop it names,
\* and for the generic placeholder when the question names none: "price of
\* tomato" is looked up under tomato.
C29_ArgumentIsNamedCandidate ==
    /\ ("Market" \in DOMAIN results /\ "commodity" \in DOMAIN results["Market"]) =>
          results["Market"].commodity =
              FirstNamed(commodities, question, <<"general commodity">>)
    /\ "Pest" \in DOMAIN results =>
          results["Pest"].crop = FirstNamed(crops, question, <<"general crop">>)

\* The knowledge-base part of the bundle built so far, in order.
IsKnowledgeBaseSection(section) == RankOf(section) = 1
KnowledgeBasePart == SelectSeq(context_parts, IsKnowledgeBaseSection)

\* C30: after the search step the knowledge-base part of the bundle has one
\* section for each accepted hit, in order, with its number, source, score and
\* text, when the search succeeded with is_relevant true; the single section
\* "no relevant information" when it succeeded with is_relevant false; the
\* single section "tool failed" with the error when it failed; and is_relevant
\* is true exactly when a hit was accepted.
C30_KnowledgeBaseSections ==
    "RAG" \in DOMAIN results =>
        LET rag_result == results["RAG"]
            part == KnowledgeBasePart
        IN  /\ rag_result.success =>
                  (rag_result.is_relevant <=> Len(rag_result.results) > 0)
            /\ (rag_result.success /\ rag_result.is_relevant) =>
                  /\ Len(part) = Len(rag_result.results)
                  /\ Len(rag_result.scores) = Len(rag_result.results)
                  /\ \A i \in DOMAIN part :
                        part[i] = Section(<<"RAG Knowledge Base - Context">>, i,
                                          rag_result.results[i].source,
                                          rag_result.scores[i],
                                          <<rag_result.results[i].text>>)
            /\ (rag_result.success /\ ~rag_result.is_relevant) =>
                  /\ Len(part) = 1
                  /\ part[1].label = <<"RAG Knowledge Base">>
                  /\ part[1].body =
                        <<"No relevant information found (Score below threshold).">>
            /\ ~rag_result.success =>
                  /\ Len(part) = 1
                  /\ part[1].label = <<"RAG Knowledge Base">>
                  /\ part[1].body = <<"Tool failed to execute: ">> \o rag_result.error

C30_Witness ==
    /\ qpc = "done"
    /\ results["RAG"].success
    /\ results["RAG"].is_relevant
    /\ Len(results["RAG"].results) = 2
    /\ Len(KnowledgeBasePart) = 2
    /\ KnowledgeBasePart[2].item = 2
    /\ Len(result.context) > 2

\* The step of r belongs to a get_next_key() call.
InLookup(r) == pc[r] \in {"lookup", "expire", "scan", "advance"}

\* The step of r is the POST of an attempt and what generate does with its
\* response, the call of mark_key_failed included.
InPost(r) == pc[r] = "post"

\* C31: a query() changes nothing but the cursor and the failed map of the
\* pool: the credential list, the cooldown duration and the stores of the
\* evidence sources are the same after every step; a step that is not part of
\* a get_next_key() call leaves the cursor alone (mark_key_failed never moves
\* it), and a step of get_next_key() adds no entry to the failed map and
\* alters none of those it keeps; outside of these two calls neither changes.
C31_OnlyCursorAndFailedMapChange ==
    [][/\ api_keys' = api_keys
       /\ cooldown_minutes' = cooldown_minutes
       /\ pipeVars' = pipeVars
       /\ (\A r \in Requests : ~InLookup(r)) => current_index' = current_index
       /\ (\E r \in Requests : InLookup(r)) =>
             /\ DOMAIN failed_keys' \subseteq DOMAIN failed_keys
             /\ \A k \in DOMAIN failed_keys' : failed_keys'[k] = failed_keys[k]
       /\ (\A r \in Requests : ~InLookup(r) /\ ~InPost(r)) => failed_keys' = failed_keys]_vars

\* A query has ended after it moved the cursor and disabled a credential, and
\* an entry of an earlier query has been removed by a lookup since.
C31_Witness ==
    /\ \E r \in Requests : pc[r] = "done"
    /\ current_index # 0
    /\ failed_keys # <<>>
    /\ DOMAIN marked \ DOMAIN failed_keys # {}

\* The request errors that are not rate-limit-class: a RequestException whose
\* text holds none of the markers "429", "quota", "rate limit".
OtherErrors == {resp \in Responses : resp.kind = "request_error" /\ ~resp.marker}

\* The step of r is the return of the lookup of the attempt that follows an
\* attempt of the same generate() call that disabled nothing.
LookupAfterOtherError(r) ==
    /\ gen'[r].lookups = gen[r].lookups + 1
    /\ attempt[r] > 0
    /\ last.op = "get"
    /\ last.who = r

\* C32: an attempt of generate() that fails with a request error that is not
\* rate-limit-class disables no credential: the failed map is the same after
\* the attempt as before it and the credential the attempt used is not in it;
\* the lookup of the attempt that follows finds a credential, which is the one
\* just used when the pool has no other.
C32_OtherErrorDisablesNothing ==
    [][\A r \in Requests :
          /\ \A resp \in OtherErrors :
                RemoteCallOn(r, resp) =>
                    /\ failed_keys' = failed_keys
                    /\ marked' = marked
                    /\ api_key[r] # None
                    /\ IsAvailable(api_key[r], failed_keys')
          /\ LookupAfterOtherError(r) =>
                /\ api_key'[r] # None
                /\ Len(api_keys) = 1 => api_key'[r] = last.key]_vars

\* The second attempt of a generate() call is about to POST with the only
\* credential of the pool, after a first attempt with it that failed with an
\* error that is not rate-limit-class.
C32_Witness ==
    \E r \in Requests :
        /\ pc[r] = "post"
        /\ attempt[r] = 1
        /\ gen[r].other
        /\ ~gen[r].rate
        /\ Len(api_keys) = 1
        /\ api_key[r] = api_keys[1]
        /\ api_key[r] \notin DOMAIN failed_keys

\* The entries of the pool a get_next_key() call made at time t could return:
\* those the clean-up of the call leaves out of the failed map.
Returnable(keys, failed, t, cd) ==
    {i \in DOMAIN keys : IsAvailable(keys[i], Cleanup(failed, t, cd))}

\* No get_next_key() call is in progress.
BetweenCalls == \A r \in Requests : pc[r] \notin {"expire", "scan", "advance"}

\* What get_status() reports adds up: failed_keys + available_keys is
\* total_keys and available_keys lies between 0 and total_keys.
StatusAddsUp ==
    LET status == GetStatus(api_keys, failed_keys, current_index)
    IN  /\ status.failed_keys + status.available_keys = status.total_keys
        /\ 0 <= status.available_keys
        /\ status.available_keys <= status.total_keys

\* C33: in every pool state get_status() reports failed_keys + available_keys
\* = total_keys with 0 <= available_keys <= total_keys, and available_keys is
\* the number of pool entries a get_next_key() call made at that moment could
\* return.
C33_StatusCountsReturnable ==
    BetweenCalls =>
        /\ StatusAddsUp
        /\ GetStatus(api_keys, failed_keys, current_index).available_keys
              = Cardinality(Returnable(api_keys, failed_keys, now, cooldown_minutes))

====
